---- MODULE Spec2Model ----
(***************************************************************************)
(* w1-datalogger: the rollup engine (src/w1data/rollup.py) fed by the raw  *)
(* observation walk (src/w1data/observations.py).                          *)
(*                                                                         *)
(* Nine specifications share the definitions below:                        *)
(*   Spec        one or more runs of do_rollup over a fixed raw tree and a *)
(*               rollup tree left by earlier runs;                         *)
(*   SpecFile    one RollupMonthly object driven through its methods       *)
(*               (add_row, read_lazy, flush) in any order;                 *)
(*   SpecWalk    do_rollup over raw trees with defects (unreadable files,  *)
(*               broken or missing METADATA.json, missing timestamps);     *)
(*   SpecBlob    transform1, get_fallback_time and the walk on one blob;   *)
(*   SpecFault   do_rollup under a file system whose writes may fail;      *)
(*   SpecResolve LocalArgumentParser._resolve (src/w1data/commands.py);    *)
(*   SpecSeries  add_row alone, three calls, on the metadata series;       *)
(*   SpecDecode  the walk over one datapoint of any sensor key and payload;*)
(*   SpecConfig  Config.config of the device agent                         *)
(*               (src/w1datalogger/logger.py), under weak fairness.        *)
(*                                                                         *)
(* Time is modelled at a granularity of half a month: a datetime is a      *)
(* record [year, month, tick, off], tick \in 0..1 the position inside the  *)
(* month and off the UTC offset in ticks.  Python compares and hashes      *)
(* aware datetimes by their UTC instant, and reads .year/.month from the   *)
(* wall clock; both are kept apart here.                                   *)
(*                                                                         *)
(* Assumptions.  observations.py ends with a module-level "return 0"       *)
(* (line 390) that CPython rejects when it compiles the module, and it     *)
(* imports W1Datapoint from a module .w1datapoint that src/ does not hold; *)
(* the model describes the bodies of the functions as they run once the    *)
(* package imports.  os.scandir yields entries in one fixed order.  Every  *)
(* isotime carries a UTC offset.  After a call has raised, no further call *)
(* is made on the same object in the same run.                             *)
(***************************************************************************)
EXTENDS Integers, Sequences, FiniteSets, TLC

VARIABLES
    disk,                  \* rollup tree: JSON documents by path
    plots,                 \* rollup tree: companion .data files by path
    dirs,                  \* rollup tree: measurement directories that exist
    raw,                   \* raw tree: the datapoints the walk will meet, in order
    collection,            \* RollupMonthlyCollection.collection (insertion ordered)
    most_recent_ymm_init,  \* RollupMonthlyCollection.most_recent_ymm_init
    all_ymms_init,         \* RollupMonthlyCollection.all_ymms_init
    pc,                    \* position of do_rollup
    run,                   \* which run of do_rollup this is
    walk,                  \* what the generate_all generator has yet to yield
    fidx,                  \* index of the next collection entry to flush
    rf,                    \* SpecFile: the RollupMonthly object under test
    calls,                 \* SpecFile: number of add_row calls made so far
    cli,                   \* SpecResolve: the parsed arguments, environment and config file
    cfg,                   \* SpecConfig: the device agent's Config object and its files
    last,                  \* history: the last call made and what it was given
    hist                   \* history: earlier contents of the rollup tree

vars == <<disk, plots, dirs, raw, collection, most_recent_ymm_init,
          all_ymms_init, pc, run, walk, fidx, rf, calls, cli, cfg, last, hist>>

(***************************************************************************)
(* Bounds of the model.                                                    *)
(***************************************************************************)
MaxObs == 2      \* datapoints in the raw tree
MaxCalls == 2    \* add_row calls made on the object of SpecFile
MaxRuns == 2     \* runs of do_rollup, one after the other
MaxAddRows == 3  \* add_row calls made on the object of SpecSeries
MaxDepth == 3    \* directories above the config file name of SpecConfig

(***************************************************************************)
(* Python values.                                                          *)
(***************************************************************************)
None == << >>
Some(v) == <<v>>

EmptyFn == [x \in {} |-> x]

DT(y, m, k, o) == [year |-> y, month |-> m, tick |-> k, off |-> o]

\* The UTC instant of an aware datetime: what ==, < and hash() look at.
Instant(dt) == (dt.year * 12 + dt.month) * 2 + dt.tick - dt.off

J0 == DT(2020, 1, 0, 0)
J1 == DT(2020, 1, 1, 0)
J1p == DT(2020, 1, 1, 1)   \* wall clock of J1, instant of J0
F0 == DT(2020, 2, 0, 0)
F0p == DT(2020, 2, 0, 1)   \* wall clock of F0, instant of J1
J0p == DT(2020, 1, 0, 1)   \* wall clock of J0, an instant before J0

SensorKey == "28-011912588b87/w1_slave"

\* An overlay that merges the "collector" dicts of base and sub key by key
Overlay_deep(base, sub) ==
    [k \in (DOMAIN base) \cup (DOMAIN sub) |->
        IF k \in DOMAIN sub
        THEN IF k = "collector" /\ k \in DOMAIN base
             THEN [j \in (DOMAIN base[k]) \cup (DOMAIN sub[k]) |->
                      IF j \in DOMAIN sub[k] THEN sub[k][j] ELSE base[k][j]]
             ELSE sub[k]
        ELSE base[k]]

\* dict.update of a copy: the top-level keys of sub replace those of base
Overlay(base, sub) ==
    [k \in (DOMAIN base) \cup (DOMAIN sub) |-> IF k \in DOMAIN sub THEN sub[k] ELSE base[k]]

\* METADATA.json documents: of the raw root, and of two endpoint directories
RootDoc == [site |-> "office"]
DocA == [collector |-> [sensors |-> (SensorKey :> [name |-> "air"])]]
DocB == [collector |-> [sensors |-> (SensorKey :> [name |-> "air"])],
         site |-> "lab"]

MetaA == Overlay(RootDoc, DocA)
MetaB == Overlay(RootDoc, DocB)

Snapshots == {MetaA, MetaB}
Uuids == {"ev1", "ev2"}
\* The driver-computed reading of a w1_slave pseudofile, in millidegrees.
Temps == {16187, 21500}

\* datetime.isoformat: the text of the wall clock and of the offset
isoformat(dt) == [iso |-> <<dt.year, dt.month, dt.tick, dt.off>>]

\* dateutil.parser.isoparse: the aware datetime an ISO text denotes
isoparse(isotime_str) ==
    DT(isotime_str.iso[1], isotime_str.iso[2], isotime_str.iso[3], isotime_str.iso[4])

\* common.datetime_isoformat: the tzinfo is REPLACED by UTC, the wall clock
\* is kept as it is (no conversion), then the result is formatted.
datetime_isoformat(dt) == isoformat([dt EXCEPT !.off = 0])

\* What Python's < and == look at in the first component of a sorted pair:
\* the instant of a datetime, and for the ISO texts of one offset the moment
\* they denote (their character order)
SortKey(x) == IF "iso" \in DOMAIN x THEN Instant(isoparse(x)) ELSE Instant(x)

\* metadata.measurement_for_skey
measurement_for_skey(sensor_key, metadata) ==
    metadata.collector.sensors[sensor_key].name

\* The content of a w1_slave pseudofile as value_re reads it: the checksum
\* token and the optional driver-computed reading "t=<millidegrees>".
W1Strings == {[crc_ok |-> "YES", temp |-> Some(t)] : t \in Temps}

\* W1Datapoint_Linux_w1therm.__init__ and .value: the decoded reading is the
\* driver's integer divided by 1000; it is kept in thousandths of a degree.
W1Datapoint_Linux_w1therm(w1_string) ==
    [consistent |-> (w1_string.crc_ok = "YES"), temp |-> w1_string.temp[1]]
value(datapoint) == datapoint.temp

(***************************************************************************)
(* The rollup tree.  A path is a directory and a file name; the rollup     *)
(* root is the directory "", every other directory is named for a          *)
(* measurement.                                                            *)
(***************************************************************************)
rollup_location == ""

Path(dir, name) == [dir |-> dir, name |-> name]

\* RollupMonthly.filename_format: "{:04}-{:02}-{}.json"
filename_format(year, month, measurement_name) ==
    [year |-> year, month |-> month, measurement |-> measurement_name,
     ext |-> "json"]

\* filename.replace(".json", ".data")
plotfilename(filename) == [filename EXCEPT !.name.ext = "data"]

FS(dk, pl, ds) == [disk |-> dk, plots |-> pl, dirs |-> ds]

EmptyTree == FS(EmptyFn, EmptyFn, {})

\* f with x mapped to v, whether or not x was in its domain
Put(f, x, v) == [y \in (DOMAIN f) \cup {x} |-> IF y = x THEN v ELSE f[y]]

(***************************************************************************)
(* RollupMonthly                                                           *)
(***************************************************************************)
\* dt_start + dend: the first moment of the following month
NextMonth(dt) ==
    IF dt.month = 12 THEN [year |-> dt.year + 1, month |-> 1]
                     ELSE [year |-> dt.year, month |-> dt.month + 1]

\* A constructor that starts the object dirty (_changed = True): what a
\* reload would be if it marked the object as modified
RollupMonthly_dirty(dt_start, measurement_name) ==
    [dt_start |-> dt_start,
     dt_end |-> NextMonth(dt_start),
     measurement_name |-> measurement_name,
     filename |-> filename_format(dt_start.year, dt_start.month, measurement_name),
     metadata_series |-> << >>,
     _changed |-> TRUE,
     _content |-> None]

\* RollupMonthly.__init__; dt_start is a naive first-of-the-month datetime
RollupMonthly(dt_start, measurement_name) ==
    [dt_start |-> dt_start,
     dt_end |-> NextMonth(dt_start),
     measurement_name |-> measurement_name,
     filename |-> filename_format(dt_start.year, dt_start.month, measurement_name),
     metadata_series |-> << >>,
     _changed |-> FALSE,
     _content |-> None]

\* json.load of a rollup document: a dict of its two sections
json_load(doc) ==
    {[key |-> "metadata", val |-> doc.metadata], [key |-> "rows", val |-> doc.rows]}

\* The file read_lazy opens: os.path.join(self.rollup_location, self.filename),
\* with no measurement directory in it.
ReadPath(self) == Path(rollup_location, self.filename)

\* The file rewrite writes: os.path.join(rollup_location, measurement_name, filename)
WritePath(self) == Path(self.measurement_name, self.filename)

\* RollupMonthly.read_lazy; a file that cannot be opened gives an empty dict
read_lazy(self, fs) ==
    IF self._content = None
    THEN IF ReadPath(self) \in DOMAIN fs.disk
         THEN [self EXCEPT !._content = Some(json_load(fs.disk[ReadPath(self)]))]
         ELSE [self EXCEPT !._content = Some({})]
    ELSE self

\* Row keys are (datetime, uuid) tuples; dict lookup compares them with ==
KeyEq(k1, k2) == Instant(k1[1]) = Instant(k2[1]) /\ k1[2] = k2[2]

\* d[k] = v on a dict held as a set of items: an equal key keeps the key
\* object it was first inserted with and takes the new value
DictSet(d, k, v) ==
    IF \E it \in d : KeyEq(it.key, k)
    THEN {IF KeyEq(it.key, k) THEN [it EXCEPT !.val = v] ELSE it : it \in d}
    ELSE d \cup {[key |-> k, val |-> v]}

\* list.sort() of (datetime, dict) tuples: two entries with equal datetimes
\* are ordered by their dicts, which Python cannot order (TypeError)
SortRaises(series) ==
    \E i, j \in 1..Len(series) :
        /\ i < j
        /\ SortKey(series[i][1]) = SortKey(series[j][1])
        /\ series[i][2] # series[j][2]

\* The sorted list, when the sort does not raise: the entry with the least
\* datetime first
RECURSIVE SortedFrom(_, _)
SortedFrom(series, left) ==
    IF left = {} THEN << >>
    ELSE LET m == CHOOSE i \in left :
                      \A j \in left : SortKey(series[i][1]) <= SortKey(series[j][1])
         IN  <<series[m]>> \o SortedFrom(series, left \ {m})

Sorted(series) == SortedFrom(series, 1..Len(series))

\* save_metadata without the test "dt < earliest": a snapshot that is found
\* takes the onset of the latest call
save_metadata_latest(series, dt, metadata) ==
    IF \E i \in 1..Len(series) : series[i][2] = metadata
    THEN LET index == CHOOSE i \in 1..Len(series) :
                          /\ series[i][2] = metadata
                          /\ \A j \in 1..(i - 1) : series[j][2] # metadata
         IN  [series |-> [series EXCEPT ![index] = <<dt, metadata>>],
              raised |-> FALSE]
    ELSE LET appended == Append(series, <<dt, metadata>>)
         IN  IF SortRaises(appended)
             THEN [series |-> appended, raised |-> TRUE]
             ELSE [series |-> Sorted(appended), raised |-> FALSE]

\* RollupMonthly.save_metadata.  The result is the series and whether the
\* call raised; a sort that raises leaves the appended entry in the list.
save_metadata(series, dt, metadata) ==
    IF \E i \in 1..Len(series) : series[i][2] = metadata
    THEN LET index == CHOOSE i \in 1..Len(series) :
                          /\ series[i][2] = metadata
                          /\ \A j \in 1..(i - 1) : series[j][2] # metadata
         IN  [series |-> IF Instant(dt) < Instant(series[index][1])
                         THEN [series EXCEPT ![index] = <<dt, metadata>>]
                         ELSE series,
              raised |-> FALSE]
    ELSE LET appended == Append(series, <<dt, metadata>>)
         IN  IF SortRaises(appended)
             THEN [series |-> appended, raised |-> TRUE]
             ELSE [series |-> Sorted(appended), raised |-> FALSE]

\* RollupMonthly.add_row.  The result is the object and whether the call raised.
add_row(self, fs, row_time, row_uuid, row_value, metadata) ==
    LET loaded == read_lazy([self EXCEPT !._changed = TRUE], fs)
        sm == save_metadata(loaded.metadata_series, row_time, metadata)
        saved == [loaded EXCEPT !.metadata_series = sm.series]
    IN  IF sm.raised
        THEN [obj |-> saved, raised |-> TRUE]
        ELSE [obj |-> [saved EXCEPT !._content =
                          Some(DictSet(loaded._content[1], <<row_time, row_uuid>>, row_value))],
              raised |-> FALSE]

\* One row of the document: [datetime_isoformat(x[0][0]), x[1].value]
RowOf(item) == <<datetime_isoformat(item.key[1]), value(item.val)>>

\* Python's order on [iso string, float] lists
RowLeq(r, s) ==
    \/ SortKey(r[1]) < SortKey(s[1])
    \/ SortKey(r[1]) = SortKey(s[1]) /\ r[2] <= s[2]

RECURSIVE SortedRows(_)
SortedRows(items) ==
    IF items = {} THEN << >>
    ELSE LET m == CHOOSE x \in items : \A y \in items : RowLeq(RowOf(x), RowOf(y))
         IN  <<RowOf(m)>> \o SortedRows(items \ {m})

\* [datetime_isoformat(x[0]), x[1]] for every entry of metadata_series
RECURSIVE MetaOf(_)
MetaOf(series) ==
    IF series = << >> THEN << >>
    ELSE <<<<datetime_isoformat(Head(series)[1]), Head(series)[2]>>>> \o MetaOf(Tail(series))

\* One line of the .data file: isoparse(row[0]).timestamp() and the value
PlotLine(row) == <<Instant(isoparse(row[1])), row[2]>>

RECURSIVE PlotLines(_)
PlotLines(content) ==
    IF content = << >> THEN << >>
    ELSE <<PlotLine(Head(content))>> \o PlotLines(Tail(content))

\* Rows appended to the document already on disk (a file opened with 'a'
\* in place of 'w')
write_files_append(self, fs) ==
    LET made == [fs EXCEPT !.dirs = @ \cup {self.measurement_name}]
        filename == WritePath(self)
        before == IF filename \in DOMAIN fs.disk THEN fs.disk[filename].rows ELSE << >>
        content == before \o SortedRows(self._content[1])
        meta == MetaOf(self.metadata_series)
    IN  IF SortRaises(meta)
        THEN [fs |-> made, raised |-> TRUE]
        ELSE [fs |-> [made EXCEPT
                        !.disk = Put(@, filename, [metadata |-> Sorted(meta), rows |-> content]),
                        !.plots = Put(@, plotfilename(filename),
                                      [header |-> self.measurement_name,
                                       lines |-> PlotLines(content)])],
              raised |-> FALSE]

\* The body of rewrite once its guard has passed.  The result is the tree and
\* whether the call raised: sorted() of the metadata pairs raises like
\* list.sort() does, after makedirs and before any file is opened.
write_files(self, fs) ==
    LET made == [fs EXCEPT !.dirs = @ \cup {self.measurement_name}]
        content == SortedRows(self._content[1])
        meta == MetaOf(self.metadata_series)
        filename == WritePath(self)
    IN  IF SortRaises(meta)
        THEN [fs |-> made, raised |-> TRUE]
        ELSE [fs |-> [made EXCEPT
                        !.disk = Put(@, filename, [metadata |-> Sorted(meta), rows |-> content]),
                        !.plots = Put(@, plotfilename(filename),
                                      [header |-> self.measurement_name,
                                       lines |-> PlotLines(content)])],
              raised |-> FALSE]

\* RollupMonthly.rewrite
rewrite(self, fs) ==
    IF self._content # None /\ self._changed
    THEN write_files(self, fs)
    ELSE [fs |-> fs, raised |-> FALSE]

\* A flush that does not look at _changed: it writes whatever is loaded
flush_loaded(self, fs) ==
    IF self._content # None THEN write_files(self, fs) ELSE [fs |-> fs, raised |-> FALSE]

\* A flush that loads the object and writes it, dirty or not
flush_loading(self, fs) == write_files(read_lazy(self, fs), fs)

\* RollupMonthly.flush
flush(self, fs) ==
    IF self._changed THEN rewrite(self, fs) ELSE [fs |-> fs, raised |-> FALSE]

\* What the file system does to the writes of one rewrite: both files are
\* written; the rollup document cannot be opened or written in full; the
\* .data file cannot be opened; the .data file cannot be written in full
IOOutcomes == {"ok", "json_fails", "plot_open_fails", "plot_write_fails"}

\* a file that was opened with 'w' and not written in full
Partial == [partial |-> TRUE]

\* os.unlink(filename)
Unlink(files, filename) == [p \in (DOMAIN files) \ {filename} |-> files[p]]

\* A rewrite that leaves the file it could not write where it is
write_files_io_no_unlink(self, fs, io) ==
    LET made == [fs EXCEPT !.dirs = @ \cup {self.measurement_name}]
        meta == MetaOf(self.metadata_series)
        filename == WritePath(self)
        written == write_files(self, fs)
    IN  IF io = "ok" \/ SortRaises(meta)
        THEN written
        ELSE IF io = "json_fails"
             THEN [fs |-> [made EXCEPT !.disk = Put(@, filename, Partial)], raised |-> TRUE]
             ELSE [fs |-> [written.fs EXCEPT
                             !.plots = IF io = "plot_open_fails"
                                       THEN fs.plots
                                       ELSE Put(@, plotfilename(filename), Partial)],
                   raised |-> FALSE]

\* A rewrite that lets the error of the .data file leave it
write_files_io_plot_raises(self, fs, io) ==
    LET made == [fs EXCEPT !.dirs = @ \cup {self.measurement_name}]
        meta == MetaOf(self.metadata_series)
        filename == WritePath(self)
        written == write_files(self, fs)
    IN  IF io = "ok" \/ SortRaises(meta)
        THEN written
        ELSE IF io = "json_fails"
             THEN [fs |-> [made EXCEPT !.disk = Unlink(@, filename)], raised |-> TRUE]
             ELSE [fs |-> [written.fs EXCEPT
                             !.plots = IF io = "plot_open_fails"
                                       THEN fs.plots
                                       ELSE Put(@, plotfilename(filename), Partial)],
                   raised |-> TRUE]

\* The body of rewrite under a file system that may fail.  sorted() raises
\* before any file is opened.  When the rollup document cannot be written,
\* "except: os.unlink(filename); raise" removes the file, the one that was
\* there before included, and the .data file is not reached.  When the
\* .data file cannot be written, "except: logger.warning(...)" ends rewrite
\* with the rollup document written.
write_files_io(self, fs, io) ==
    LET made == [fs EXCEPT !.dirs = @ \cup {self.measurement_name}]
        meta == MetaOf(self.metadata_series)
        filename == WritePath(self)
        written == write_files(self, fs)
    IN  IF io = "ok" \/ SortRaises(meta)
        THEN written
        ELSE IF io = "json_fails"
             THEN [fs |-> [made EXCEPT !.disk = Unlink(@, filename)], raised |-> TRUE]
             ELSE [fs |-> [written.fs EXCEPT
                             !.plots = IF io = "plot_open_fails"
                                       THEN fs.plots
                                       ELSE Put(@, plotfilename(filename), Partial)],
                   raised |-> FALSE]

\* RollupMonthly.rewrite under a file system that may fail
rewrite_io(self, fs, io) ==
    IF self._content # None /\ self._changed
    THEN write_files_io(self, fs, io)
    ELSE [fs |-> fs, raised |-> FALSE]

\* RollupMonthly.flush under a file system that may fail
flush_io(self, fs, io) ==
    IF self._changed THEN rewrite_io(self, fs, io) ELSE [fs |-> fs, raised |-> FALSE]

(***************************************************************************)
(* A rollup tree left by an earlier run: the January partition of "air"    *)
(* holding one row, written by rewrite.                                    *)
(***************************************************************************)
JanStart == [year |-> 2020, month |-> 1]
FebStart == [year |-> 2020, month |-> 2]

Datapoints == {W1Datapoint_Linux_w1therm(w) : w \in W1Strings}
DP0 == W1Datapoint_Linux_w1therm([crc_ok |-> "YES", temp |-> Some(16187)])

PriorJan == add_row(RollupMonthly(JanStart, "air"), EmptyTree, J0, "ev1", DP0, MetaA).obj
PriorFeb == add_row(RollupMonthly(FebStart, "air"), EmptyTree, F0, "ev1", DP0, MetaA).obj

JanTree == write_files(PriorJan, EmptyTree).fs
JanFebTree == write_files(PriorFeb, JanTree).fs

tree == FS(disk, plots, dirs)

Call(op, args, had, raised) == [op |-> op, args |-> args, had |-> had, raised |-> raised]

\* hist: tree0 is the rollup tree before the first call, end1 the tree the
\* run before left (None in the first run), added the least instant each
\* snapshot was given to add_row with, times the ISO timestamps add_row was
\* given since rf was constructed, at_new the partition's document on disk
\* when rf was constructed (None when there was no file)
History(tree0, end1, added, times, at_new) ==
    [tree0 |-> tree0, end1 |-> end1, added |-> added, times |-> times, at_new |-> at_new]

\* The document a tree holds at a path, None when it holds none
FileAt(fs, p) == IF p \in DOMAIN fs.disk THEN Some(fs.disk[p]) ELSE None

(***************************************************************************)
(* SpecFile: one RollupMonthly object, the January partition of "air".     *)
(***************************************************************************)
FileTimes == {J0, J1, J1p}

EngineIdle ==
    /\ raw = << >>
    /\ collection = << >>
    /\ most_recent_ymm_init = None
    /\ all_ymms_init = {}
    /\ pc = "idle"
    /\ run = 0
    /\ walk = << >>
    /\ fidx = 0

engineVars == <<raw, collection, most_recent_ymm_init, all_ymms_init, pc, run, walk, fidx>>

FileInit ==
    /\ \E t \in {EmptyTree, JanTree} :
          /\ disk = t.disk
          /\ plots = t.plots
          /\ dirs = t.dirs
          /\ hist = History(t, None, EmptyFn, {},
                            FileAt(t, WritePath(RollupMonthly(JanStart, "air"))))
    /\ rf = RollupMonthly(JanStart, "air")
    /\ calls = 0
    /\ cli = None
    /\ cfg = None
    /\ last = Call("new", << >>, FALSE, FALSE)
    /\ EngineIdle

\* hist.added: the least instant each snapshot was given to add_row with
Earliest(added, m, i) ==
    IF m \in DOMAIN added /\ added[m] <= i THEN added ELSE Put(added, m, i)

\* Whether the row dict holds a key equal to k
HasKey(self, k) ==
    /\ self._content # None
    /\ \E it \in self._content[1] : KeyEq(it.key, k)

\* rf.add_row(t, u, v, m)
FileAddRow ==
    /\ calls < MaxCalls
    /\ ~last.raised
    /\ \E t \in FileTimes, u \in Uuids, v \in Datapoints, m \in Snapshots :
          \E r \in {add_row(rf, tree, t, u, v, m)} :
              /\ rf' = r.obj
              /\ last' = Call("add_row", <<t, u, v, m>>, HasKey(rf, <<t, u>>), r.raised)
              /\ hist' = [hist EXCEPT !.added = Earliest(@, m, Instant(t)),
                                      !.times = @ \cup {datetime_isoformat(t)}]
    /\ calls' = calls + 1
    /\ UNCHANGED <<disk, plots, dirs, engineVars, cli, cfg>>

\* rf.read_lazy()
FileReadLazy ==
    /\ ~last.raised
    /\ rf._content = None
    /\ rf' = read_lazy(rf, tree)
    /\ last' = Call("read_lazy", << >>, FALSE, FALSE)
    /\ UNCHANGED <<disk, plots, dirs, calls, hist, engineVars, cli, cfg>>

\* rf.flush()
FileFlush ==
    /\ ~last.raised
    /\ \E r \in {flush(rf, tree)} :
           /\ disk' = r.fs.disk
           /\ plots' = r.fs.plots
           /\ dirs' = r.fs.dirs
           /\ last' = Call("flush", << >>, FALSE, r.raised)
    /\ UNCHANGED <<rf, calls, hist, engineVars, cli, cfg>>

\* Whether flush() of self writes its files
Writes(self) == self._changed /\ self._content # None

\* A flush has just written the file: the object is dropped and a fresh
\* RollupMonthly is made for the partition.
FileNew ==
    /\ last.op = "flush" /\ ~last.raised /\ Writes(rf)
    /\ rf' = RollupMonthly(JanStart, "air")
    /\ last' = Call("new", << >>, FALSE, FALSE)
    /\ hist' = [hist EXCEPT
                  !.added = EmptyFn,
                  !.times = {},
                  !.at_new = FileAt(tree, WritePath(rf))]
    /\ UNCHANGED <<disk, plots, dirs, calls, engineVars, cli, cfg>>

FileNext == FileAddRow \/ FileReadLazy \/ FileFlush \/ FileNew

SpecFile == FileInit /\ [][FileNext]_vars

(***************************************************************************)
(* Observation and the walk of the raw tree (observations.py).             *)
(*                                                                         *)
(* The raw tree is [metadata, subdirs]: the root's METADATA.json and the   *)
(* endpoint subdirectories in scandir order, each [metadata, files].  A    *)
(* METADATA.json is None when no file can be read, else Some(content),     *)
(* the content a document or BadJson.  A data file is [kind, blobs]:       *)
(* kind "json" with the list of blobs it holds, "badjson" or "unreadable". *)
(* A blob is a dict: "datapoints" and the scan and recording fields, or a  *)
(* legacy record keyed by a sensor key, or a health record with "uptime".  *)
(* A datapoint is a dict of key, value and, when it has them, isotime and  *)
(* recording_event.                                                        *)
(*                                                                         *)
(* A walk is the sequence of what the generator does: the Observations it  *)
(* yields, ended by [stop |-> exception] when it raises.                   *)
(***************************************************************************)
BadJson == [bad_json |-> TRUE]

JsonFile(blobs) == [kind |-> "json", blobs |-> blobs]

Stop(exception) == [stop |-> exception]
IsStop(event) == "stop" \in DOMAIN event
Stopped(acc) == acc # << >> /\ IsStop(acc[Len(acc)])

\* a sensor key no registered handler matches (sensor_key_re does not match)
OtherKey == "humidity"

\* a sensor key of a family sensor_key_re matches and no handler is
\* registered for
Type10Key == "10-000802be73fa/w1_slave"

\* W1Datapoint_Linux_w1therm.key_from_sensor_key, on the sensor keys of the
\* model: "<stype>/w1_slave" when sensor_key_re matches, else None
key_from_sensor_key(sensor_key) ==
    IF sensor_key = SensorKey THEN Some("28/w1_slave")
    ELSE IF sensor_key = Type10Key THEN Some("10/w1_slave")
    ELSE None

\* Observation._handlers: the one registration, of "28/w1_slave"
Handlers == {"28/w1_slave"}

\* a w1_slave text value_re does not match
Garbage == [garbage |-> TRUE]

\* What W1Datapoint_Linux_w1therm.__init__ raises on a payload: ItAintMe
\* when value_re does not match, RuntimeError when the driver's "t=" line is
\* missing, None when it builds the datapoint
decode_raises(w1_string) ==
    IF "crc_ok" \notin DOMAIN w1_string THEN Some("ItAintMe")
    ELSE IF w1_string.temp = None THEN Some("RuntimeError")
    ELSE None

\* What Observation.__init__ raises for a sensor key and a payload: ItAintMe
\* when no handler gives a key or none is registered under the key, else
\* what the handler raises
observation_raises(sensor_key, w1_string) ==
    IF key_from_sensor_key(sensor_key) = None THEN Some("ItAintMe")
    ELSE IF key_from_sensor_key(sensor_key)[1] \notin Handlers
         THEN Some("ItAintMe")
         ELSE decode_raises(w1_string)

\* k[:3] on the dict keys of the model: "28-" for the sensor key, and the
\* key itself stands for the prefix of any other key
Prefix3(k) == IF k = SensorKey THEN "28-" ELSE k

\* uuid.uuid4(): a value no other call gives; the n-th event of a walk gets
\* the n-th of these
Uuid4(n) == <<"uuid4-1", "uuid4-2", "uuid4-3", "uuid4-4", "uuid4-5", "uuid4-6">>[n]

\* Observation.__init__, for a sensor key the thermal decoder recognizes
Observation(isotime_str, sensor_key, w1_string, event_uuid, metadata) ==
    [datetime |-> isoparse(isotime_str),
     sensor_key |-> sensor_key,
     uuid |-> event_uuid,
     datapoint |-> W1Datapoint_Linux_w1therm(w1_string),
     metadata |-> metadata]

\* Whether metadata['collector']['sensors'][sensor_key]['name'] is there;
\* when it is not, the lookup raises KeyError
Resolves(sensor_key, metadata) ==
    /\ "collector" \in DOMAIN metadata
    /\ "sensors" \in DOMAIN metadata.collector
    /\ sensor_key \in DOMAIN metadata.collector.sensors
    /\ "name" \in DOMAIN metadata.collector.sensors[sensor_key]

\* A partition key taken from the UTC instant of the timestamp
year_month_measurement_utc(self) ==
    <<((Instant(self.datetime) \div 2) - 1) \div 12,
      (((Instant(self.datetime) \div 2) - 1) % 12) + 1,
      measurement_for_skey(self.sensor_key, self.metadata)>>

\* Observation.year_month_measurement
year_month_measurement(self) ==
    <<self.datetime.year, self.datetime.month,
      measurement_for_skey(self.sensor_key, self.metadata)>>

\* A transform1 that leaves the legacy key in the record
transform1_keeps_key(obj) ==
    IF \E k \in DOMAIN obj : Prefix3(k) = "28-"
    THEN LET k == CHOOSE j \in DOMAIN obj : Prefix3(j) = "28-"
         IN  [j \in (DOMAIN obj) \cup {"datapoints"} |->
                 IF j = "datapoints"
                 THEN <<[isotime |-> obj[k].isotime, key |-> k, value |-> obj[k].value]>>
                 ELSE obj[j]]
    ELSE obj

\* Observations.transform1: the first key that starts with "28-" becomes the
\* one datapoint of the record (the model's records hold at most one)
transform1(obj) ==
    IF \E k \in DOMAIN obj : Prefix3(k) = "28-"
    THEN LET k == CHOOSE j \in DOMAIN obj : Prefix3(j) = "28-"
         IN  [j \in ((DOMAIN obj) \ {k}) \cup {"datapoints"} |->
                 IF j = "datapoints"
                 THEN <<[isotime |-> obj[k].isotime, key |-> k, value |-> obj[k].value]>>
                 ELSE obj[j]]
    ELSE obj

\* A fallback chain that looks at scan_start first
get_fallback_time_start_first(obj) ==
    IF "scan_start" \in DOMAIN obj
    THEN [fb |-> obj.scan_start, raised |-> FALSE]
    ELSE IF "recording_isotime" \in DOMAIN obj
         THEN [fb |-> obj.recording_isotime, raised |-> FALSE]
         ELSE IF "scan_end" \in DOMAIN obj
              THEN [fb |-> obj.scan_end, raised |-> FALSE]
              ELSE [fb |-> None, raised |-> TRUE]

\* Observations.get_fallback_time.  The result is the time and whether the
\* call raised (RuntimeError: no fallback time found).
get_fallback_time(obj) ==
    IF "scan_end" \in DOMAIN obj
    THEN [fb |-> obj.scan_end, raised |-> FALSE]
    ELSE IF "recording_isotime" \in DOMAIN obj
         THEN [fb |-> obj.recording_isotime, raised |-> FALSE]
         ELSE IF "scan_start" \in DOMAIN obj
              THEN [fb |-> obj.scan_start, raised |-> FALSE]
              ELSE [fb |-> None, raised |-> TRUE]

\* Observations.metadata: no readable METADATA.json gives {}
metadata_of(dir) == IF dir.metadata = None THEN EmptyFn ELSE dir.metadata[1]

\* A metadata reader that never exits: broken JSON is taken as a document
MetadataExits_never(dir) == FALSE

\* Observations.metadata: a METADATA.json that is not JSON ends the process
\* (sys.exit(65))
MetadataExits(dir) == dir.metadata = Some(BadJson)

\* An inner loop that passes over a datapoint whose sensor key no handler
\* knows and goes on with the next
RECURSIVE ObservationsOfBlob_skipping(_, _, _, _)
ObservationsOfBlob_skipping(dps, blob, metadata, acc) ==
    IF dps = << >> \/ Stopped(acc) THEN acc
    ELSE LET p == Head(dps)
             isotime == IF "isotime" \in DOMAIN p
                        THEN [fb |-> p.isotime, raised |-> FALSE]
                        ELSE get_fallback_time(blob)
             p_uuid == IF "recording_event" \in DOMAIN p
                       THEN p.recording_event
                       ELSE Uuid4(Len(acc) + 1)
         IN  IF isotime.raised
             THEN Append(acc, Stop("RuntimeError"))
             ELSE IF key_from_sensor_key(p.key) = None
                  THEN ObservationsOfBlob_skipping(Tail(dps), blob, metadata, acc)
                  ELSE ObservationsOfBlob_skipping(
                           Tail(dps), blob, metadata,
                           Append(acc, Observation(isotime.fb, p.key, p.value, p_uuid, metadata)))

\* the inner loop of generate_dir: one Observation per datapoint of a blob.
\* acc is the walk so far.
RECURSIVE ObservationsOfBlob(_, _, _, _)
ObservationsOfBlob(dps, blob, metadata, acc) ==
    IF dps = << >> \/ Stopped(acc) THEN acc
    ELSE LET p == Head(dps)
             isotime == IF "isotime" \in DOMAIN p
                        THEN [fb |-> p.isotime, raised |-> FALSE]
                        ELSE get_fallback_time(blob)
             p_uuid == IF "recording_event" \in DOMAIN p
                       THEN p.recording_event
                       ELSE Uuid4(Len(acc) + 1)
         IN  IF isotime.raised
             THEN Append(acc, Stop("RuntimeError"))
             ELSE IF observation_raises(p.key, p.value) # None
                  THEN Append(acc, Stop(observation_raises(p.key, p.value)[1]))
                  ELSE ObservationsOfBlob(
                           Tail(dps), blob, metadata,
                           Append(acc, Observation(isotime.fb, p.key, p.value, p_uuid, metadata)))

\* the loop over the blobs of one data file
RECURSIVE ObservationsOfFile(_, _, _)
ObservationsOfFile(blob_list, metadata, acc) ==
    IF blob_list = << >> \/ Stopped(acc) THEN acc
    ELSE LET blob == Head(blob_list)
             obj == IF "datapoints" \in DOMAIN blob THEN blob ELSE transform1(blob)
         IN  IF "uptime" \in DOMAIN blob
             THEN ObservationsOfFile(Tail(blob_list), metadata, acc)
             ELSE IF "datapoints" \notin DOMAIN obj
                  THEN Append(acc, Stop("KeyError"))
                  ELSE ObservationsOfFile(Tail(blob_list), metadata,
                                          ObservationsOfBlob(obj.datapoints, obj, metadata, acc))

\* the loop over the data files of one subdirectory.  A file that cannot be
\* opened or parsed reaches "except: logger.exception()", and that call,
\* made without its msg argument, raises TypeError out of the handler.
RECURSIVE ObservationsOfFiles(_, _, _)
ObservationsOfFiles(files, metadata, acc) ==
    IF files = << >> \/ Stopped(acc) THEN acc
    ELSE IF Head(files).kind # "json"
         THEN Append(acc, Stop("TypeError"))
         ELSE ObservationsOfFiles(Tail(files), metadata,
                                  ObservationsOfFile(Head(files).blobs, metadata, acc))

\* Observations.generate_dir: the walk so far, and what it adds to it
generate_dir(dir, metadata_base, acc) ==
    IF MetadataExits(dir)
    THEN Append(acc, Stop("SystemExit65"))
    ELSE ObservationsOfFiles(dir.files, Overlay(metadata_base, metadata_of(dir)), acc)

RECURSIVE GenerateDirs(_, _, _)
GenerateDirs(subdirs, metadata_base, acc) ==
    IF subdirs = << >> \/ Stopped(acc) THEN acc
    ELSE GenerateDirs(Tail(subdirs), metadata_base,
                      generate_dir(Head(subdirs), metadata_base, acc))

\* Observations.generate_all: the whole walk
generate_all(rawtree) ==
    IF MetadataExits(rawtree)
    THEN <<Stop("SystemExit65")>>
    ELSE GenerateDirs(rawtree.subdirs, metadata_of(rawtree), << >>)

(***************************************************************************)
(* RollupMonthlyCollection.  The store is held as the record               *)
(* [collection, most_recent_ymm_init, all_ymms_init]; collection is the    *)
(* dict as the sequence of its [key, val] items in insertion order.        *)
(***************************************************************************)
\* datetime.utctimetuple of a naive first-of-the-month datetime
utctimetuple(dtb) == <<dtb.year, dtb.month, 1, 0, 0, 0>>

TimeTupleLess(a, b) == a[1] < b[1] \/ (a[1] = b[1] /\ a[2] < b[2])

\* str order on the measurement names of the model
StrLeq(a, b) == a = b \/ <<a, b>> \in {<<"air", "water">>}

\* tuple order on the keys the constructor makes: (struct_time, name)
InitKeyLeq(k1, k2) ==
    \/ TimeTupleLess(k1[1], k2[1])
    \/ k1[1] = k2[1] /\ StrLeq(k1[2], k2[2])

\* The rollup files the constructor's scan matches: name_re matches the
\* .json files of the measurement directories and no .data file
ScannedPaths(fs) == {p \in DOMAIN fs.disk : p.dir \in fs.dirs /\ p.name.ext = "json"}

\* The item the constructor stores for one matched file
ScannedItem(p) ==
    LET dtb == [year |-> p.name.year, month |-> p.name.month]
    IN  [key |-> <<utctimetuple(dtb), p.dir>>, val |-> RollupMonthly(dtb, p.dir)]

\* The items of the scan, in the order os.scandir gives the files
RECURSIVE ScanOrder(_)
ScanOrder(paths) ==
    IF paths = {} THEN << >>
    ELSE LET p == CHOOSE q \in paths : TRUE
         IN  <<ScannedItem(p)>> \o ScanOrder(paths \ {p})

Keys(coll) == {coll[i].key : i \in 1..Len(coll)}

\* RollupMonthlyCollection.__init__
RollupMonthlyCollection(fs) ==
    LET coll == ScanOrder(ScannedPaths(fs))
    IN  [collection |-> coll,
         most_recent_ymm_init |->
            IF coll = << >> THEN None
            ELSE Some(CHOOSE k \in Keys(coll) : \A j \in Keys(coll) : InitKeyLeq(j, k)),
         all_ymms_init |-> Keys(coll)]

\* The index of key in the dict, 0 when it is not there (KeyError)
Find(coll, key) ==
    IF \E i \in 1..Len(coll) : coll[i].key = key
    THEN CHOOSE i \in 1..Len(coll) : coll[i].key = key
    ELSE 0

\* RollupMonthlyCollection.add_observation.  The result is the store and
\* whether the call raised.
add_observation(store, fs, observation, ymm) ==
    LET found == Find(store.collection, ymm)
        dt == [year |-> ymm[1], month |-> ymm[2]]
        coll == IF found = 0
                THEN Append(store.collection,
                            [key |-> ymm, val |-> RollupMonthly(dt, ymm[3])])
                ELSE store.collection
        index == IF found = 0 THEN Len(coll) ELSE found
        r == add_row(coll[index].val, fs, observation.datetime, observation.uuid,
                     observation.datapoint, observation.metadata)
    IN  [store |-> [store EXCEPT !.collection = [coll EXCEPT ![index].val = r.obj]],
         raised |-> r.raised]

\* save_quick with the membership test inverted: only a partition that was
\* on disk at construction is merged
save_quick_known_only(store, fs, observation) ==
    IF ~Resolves(observation.sensor_key, observation.metadata)
    THEN [store |-> store, raised |-> TRUE]
    ELSE LET ymm == year_month_measurement(observation)
         IN  IF ymm \in store.all_ymms_init
             THEN add_observation(store, fs, observation, ymm)
             ELSE [store |-> store, raised |-> FALSE]

\* RollupMonthlyCollection.save_quick; observation.key and
\* year_month_measurement raise KeyError when the sensor does not resolve
save_quick(store, fs, observation) ==
    IF ~Resolves(observation.sensor_key, observation.metadata)
    THEN [store |-> store, raised |-> TRUE]
    ELSE LET ymm == year_month_measurement(observation)
         IN  IF Some(ymm) = store.most_recent_ymm_init
             THEN add_observation(store, fs, observation, ymm)
             ELSE IF ymm \notin store.all_ymms_init
                  THEN add_observation(store, fs, observation, ymm)
                  ELSE [store |-> store, raised |-> FALSE]

(***************************************************************************)
(* Spec: do_rollup, run MaxRuns times over the same raw tree.              *)
(*                                                                         *)
(* The raw trees of the model: at most MaxObs endpoint subdirectories,     *)
(* each with a METADATA.json and one data file of one blob of one          *)
(* datapoint that carries its own recording_event.                         *)
(***************************************************************************)
W0 == [crc_ok |-> "YES", temp |-> Some(16187)]
W1 == [crc_ok |-> "YES", temp |-> Some(21500)]

Datapoint(t, w, u) == [isotime |-> isoformat(t), key |-> SensorKey, value |-> w, recording_event |-> u]

RawPoints ==
    {Datapoint(t, W0, "ev1") : t \in {J0, J1, F0}}
        \cup {Datapoint(J0, W0, "ev2"), Datapoint(J0, W1, "ev1")}

Endpoints ==
    {[metadata |-> Some(d), files |-> <<JsonFile(<<[datapoints |-> <<p>>]>>)>>] :
        d \in {DocA, DocB}, p \in RawPoints}

RawTrees ==
    {[metadata |-> m, subdirs |-> sd] :
        m \in {None, Some(RootDoc)},
        sd \in UNION {[1..n -> Endpoints] : n \in 0..MaxObs}}

store == [collection |-> collection,
          most_recent_ymm_init |-> most_recent_ymm_init,
          all_ymms_init |-> all_ymms_init]

fileVars == <<rf, calls>>

Init ==
    /\ \E t \in {EmptyTree, JanTree, JanFebTree} :
          /\ disk = t.disk
          /\ plots = t.plots
          /\ dirs = t.dirs
          /\ hist = History(t, None, EmptyFn, {}, None)
    /\ raw \in RawTrees
    /\ collection = << >>
    /\ most_recent_ymm_init = None
    /\ all_ymms_init = {}
    /\ pc = "construct"
    /\ run = 1
    /\ walk = << >>
    /\ fidx = 0
    /\ rf = RollupMonthly(JanStart, "air")
    /\ calls = 0
    /\ cli = None
    /\ cfg = None
    /\ last = Call("new", << >>, FALSE, FALSE)

\* rollup_collection = RollupMonthlyCollection(rollup_location);
\* observations = Observations(raw_location)
Construct ==
    /\ pc = "construct"
    /\ \E s \in {RollupMonthlyCollection(tree)} :
           /\ collection' = s.collection
           /\ most_recent_ymm_init' = s.most_recent_ymm_init
           /\ all_ymms_init' = s.all_ymms_init
    /\ pc' = "walk"
    /\ walk' = generate_all(raw)
    /\ last' = Call("construct", << >>, FALSE, FALSE)
    /\ UNCHANGED <<disk, plots, dirs, raw, run, fidx, hist, fileVars, cli, cfg>>

\* Whether the store holds the row key of the observation in an object of
\* its partition
HasRow(coll, observation) ==
    /\ Resolves(observation.sensor_key, observation.metadata)
    /\ \E i \in 1..Len(coll) :
        /\ coll[i].val.filename = filename_format(observation.datetime.year,
                                                  observation.datetime.month,
                                                  measurement_for_skey(observation.sensor_key,
                                                                       observation.metadata))
        /\ HasKey(coll[i].val, <<observation.datetime, observation.uuid>>)

\* A loop body that flushes the newest object of the store after every
\* save_quick
SaveQuick_flushing ==
    /\ pc = "walk"
    /\ walk # << >>
    /\ ~IsStop(Head(walk))
    /\ \E observation \in {Head(walk)} :
       \E r \in {save_quick(store, tree, observation)} :
       \E fs \in {IF r.store.collection = << >>
                  THEN tree
                  ELSE flush(r.store.collection[Len(r.store.collection)].val, tree).fs} :
           /\ collection' = r.store.collection
           /\ most_recent_ymm_init' = r.store.most_recent_ymm_init
           /\ all_ymms_init' = r.store.all_ymms_init
           /\ pc' = IF r.raised THEN "raised" ELSE "walk"
           /\ last' = Call("save_quick", <<observation>>, HasRow(collection, observation), r.raised)
           /\ disk' = fs.disk
           /\ plots' = fs.plots
           /\ dirs' = fs.dirs
    /\ walk' = Tail(walk)
    /\ UNCHANGED <<raw, run, fidx, hist, fileVars, cli, cfg>>

\* the walk yields its next observation: rollup_collection.save_quick(observation)
SaveQuick ==
    /\ pc = "walk"
    /\ walk # << >>
    /\ ~IsStop(Head(walk))
    /\ \E observation \in {Head(walk)} :
       \E r \in {save_quick(store, tree, observation)} :
           /\ collection' = r.store.collection
           /\ most_recent_ymm_init' = r.store.most_recent_ymm_init
           /\ all_ymms_init' = r.store.all_ymms_init
           /\ pc' = IF r.raised THEN "raised" ELSE "walk"
           /\ last' = Call("save_quick", <<observation>>, HasRow(collection, observation), r.raised)
    /\ walk' = Tail(walk)
    /\ UNCHANGED <<disk, plots, dirs, raw, run, fidx, hist, fileVars, cli, cfg>>

\* the walk raises: the exception leaves the for loop and do_rollup; a
\* SystemExit ends the process with its code
WalkStops ==
    /\ pc = "walk"
    /\ walk # << >>
    /\ IsStop(Head(walk))
    /\ pc' = IF Head(walk).stop = "SystemExit65" THEN "exit65" ELSE "raised"
    /\ last' = Call("walk", <<Head(walk)>>, FALSE, TRUE)
    /\ walk' = << >>
    /\ UNCHANGED <<disk, plots, dirs, raw, collection, most_recent_ymm_init,
                   all_ymms_init, run, fidx, hist, fileVars, cli, cfg>>

\* the walk is exhausted: rollup_collection.flush() starts
Exhausted ==
    /\ pc = "walk"
    /\ walk = << >>
    /\ pc' = "flush"
    /\ fidx' = 1
    /\ UNCHANGED <<disk, plots, dirs, raw, collection, most_recent_ymm_init,
                   all_ymms_init, run, walk, last, hist, fileVars, cli, cfg>>

\* RollupMonthlyCollection.flush, one item of the dict: collection.flush()
FlushOne ==
    /\ pc = "flush"
    /\ fidx <= Len(collection)
    /\ \E r \in {flush(collection[fidx].val, tree)} :
           /\ disk' = r.fs.disk
           /\ plots' = r.fs.plots
           /\ dirs' = r.fs.dirs
           /\ pc' = IF r.raised THEN "raised" ELSE "flush"
           /\ last' = Call("flush", <<fidx>>, FALSE, r.raised)
    /\ fidx' = fidx + 1
    /\ UNCHANGED <<raw, collection, most_recent_ymm_init, all_ymms_init, run, walk,
                   hist, fileVars, cli, cfg>>

\* every item is flushed: do_rollup returns None
Return ==
    /\ pc = "flush"
    /\ fidx > Len(collection)
    /\ pc' = "done"
    /\ last' = Call("return", << >>, FALSE, FALSE)
    /\ UNCHANGED <<disk, plots, dirs, raw, collection, most_recent_ymm_init,
                   all_ymms_init, run, walk, fidx, hist, fileVars, cli, cfg>>

\* do_rollup is started again over the same raw tree; hist.end1 remembers
\* the rollup tree the run before left
Again ==
    /\ pc \in {"done", "raised", "exit65"}
    /\ run < MaxRuns
    /\ run' = run + 1
    /\ pc' = "construct"
    /\ hist' = [hist EXCEPT !.end1 = Some(tree)]
    /\ last' = Call("new", << >>, FALSE, FALSE)
    /\ UNCHANGED <<disk, plots, dirs, raw, collection, most_recent_ymm_init,
                   all_ymms_init, walk, fidx, fileVars, cli, cfg>>

Next == Construct \/ SaveQuick \/ Exhausted \/ FlushOne \/ Return \/ Again

Spec == Init /\ [][Next]_vars

(***************************************************************************)
(* SpecWalk: do_rollup over raw trees with defects: data files that cannot *)
(* be read or parsed, METADATA.json that is missing or not JSON,           *)
(* datapoints without isotime, sensor keys no handler knows, legacy        *)
(* records and health records.                                             *)
(***************************************************************************)
\* a root METADATA.json that names the sensor itself
RootDocC == [site |-> "office",
             collector |-> [sensors |-> (SensorKey :> [name |-> "water"]),
                            owner |-> "ops"]]

DataBlob(p) == [datapoints |-> <<p>>]

GoodFile == JsonFile(<<DataBlob(Datapoint(J0, W0, "ev1"))>>)
LaterFile == JsonFile(<<DataBlob(Datapoint(J1, W1, "ev2"))>>)

\* a datapoint without isotime, in a blob with two of the fallback fields
FallbackBlob ==
    [datapoints |-> <<[key |-> SensorKey, value |-> W0, recording_event |-> "ev1"]>>,
     recording_isotime |-> isoformat(J1),
     scan_start |-> isoformat(J0)]

\* a datapoint without isotime, in a blob with none of the fallback fields
NoTimeBlob ==
    [datapoints |-> <<[key |-> SensorKey, value |-> W0, recording_event |-> "ev1"]>>]

\* a record of the earliest format, keyed by the sensor key
LegacyBlob ==
    (SensorKey :> [isotime |-> isoformat(J0), value |-> W0])
        @@ [recording_observer |-> "endpoint-1"]

\* a health record of the logger
UptimeBlob == [uptime |-> "3 days"]

\* a data file whose first datapoint has a sensor key no handler knows,
\* followed by a datapoint and a blob that are in order
UnknownKeyFile ==
    JsonFile(<<[datapoints |-> <<[Datapoint(J0, W0, "ev1") EXCEPT !.key = OtherKey],
                                 Datapoint(J0, W0, "ev2")>>],
               DataBlob(Datapoint(J1, W0, "ev1"))>>)

WalkEndpoints ==
    {[metadata |-> Some(DocA), files |-> <<GoodFile>>],
     [metadata |-> Some(DocB), files |-> <<LaterFile>>],
     [metadata |-> Some(DocA), files |-> <<[kind |-> "unreadable", blobs |-> << >>], LaterFile>>],
     [metadata |-> Some(DocA), files |-> <<GoodFile, [kind |-> "badjson", blobs |-> << >>]>>],
     [metadata |-> Some(BadJson), files |-> <<GoodFile>>],
     [metadata |-> None, files |-> <<GoodFile>>],
     [metadata |-> Some(DocA), files |-> <<JsonFile(<<FallbackBlob>>)>>],
     [metadata |-> Some(DocA), files |-> <<JsonFile(<<NoTimeBlob>>)>>],
     [metadata |-> Some(DocA), files |-> <<UnknownKeyFile, LaterFile>>],
     [metadata |-> Some(DocA), files |-> <<JsonFile(<<UptimeBlob, LegacyBlob>>)>>],
     [metadata |-> Some(DocA), files |-> <<JsonFile(<<DataBlob(Datapoint(F0p, W0, "ev2"))>>)>>]}

WalkTrees ==
    {[metadata |-> m, subdirs |-> sd] :
        m \in {None, Some(RootDoc), Some(RootDocC), Some(BadJson)},
        sd \in UNION {[1..n -> WalkEndpoints] : n \in 0..MaxObs}}

WalkInit ==
    /\ \E t \in {EmptyTree, JanTree} :
          /\ disk = t.disk
          /\ plots = t.plots
          /\ dirs = t.dirs
          /\ hist = History(t, None, EmptyFn, {}, None)
    /\ raw \in WalkTrees
    /\ collection = << >>
    /\ most_recent_ymm_init = None
    /\ all_ymms_init = {}
    /\ pc = "construct"
    /\ run = 1
    /\ walk = << >>
    /\ fidx = 0
    /\ rf = RollupMonthly(JanStart, "air")
    /\ calls = 0
    /\ cli = None
    /\ cfg = None
    /\ last = Call("new", << >>, FALSE, FALSE)

WalkNext == Next \/ WalkStops

SpecWalk == WalkInit /\ [][WalkNext]_vars

(***************************************************************************)
(* SpecBlob: transform1, get_fallback_time and the walk, applied to one    *)
(* blob of one data file: a record with one or two datapoints, each with   *)
(* or without its own isotime, a legacy record keyed by the sensor key, or *)
(* a record that is neither, with every choice of the fields scan_end,     *)
(* recording_isotime and scan_start.                                       *)
(***************************************************************************)
\* a dict with the key k when it is present
Opt(k, present, v) == IF present THEN (k :> v) ELSE EmptyFn

\* the scan and recording times of a blob; each field has its own time
ScanFields ==
    {Opt("scan_end", a, isoformat(F0)) @@ Opt("recording_isotime", b, isoformat(J1))
        @@ Opt("scan_start", c, isoformat(J0)) : a \in BOOLEAN, b \in BOOLEAN, c \in BOOLEAN}

\* the datapoint of a recording event, with its own isotime or without
BlobPoint(event, own) ==
    [key |-> SensorKey, value |-> W0, recording_event |-> event]
        @@ Opt("isotime", own, isoformat(J1p))

DataBlobs ==
    {("datapoints" :> dps) @@ f :
        dps \in {<<BlobPoint("ev1", a)>> : a \in BOOLEAN}
                    \cup {<<BlobPoint("ev1", a), BlobPoint("ev2", b)>> : a \in BOOLEAN, b \in BOOLEAN},
        f \in ScanFields}

\* what a legacy record holds under its sensor key
LegacyReadings ==
    {[isotime |-> isoformat(t), value |-> w] : t \in {J0, J1}, w \in {W0, W1}}
        \cup {[isotime |-> isoformat(J0), value |-> W0, crc |-> "YES"]}

LegacyBlobs ==
    {(SensorKey :> reading) @@ f @@ o :
        reading \in LegacyReadings,
        f \in ScanFields,
        o \in {EmptyFn, [recording_observer |-> "endpoint-1"]}}

BlobInputs == DataBlobs \cup LegacyBlobs \cup ScanFields

\* the raw tree of one endpoint with the blob in its one data file
BlobTree(blob) ==
    [metadata |-> Some(RootDocC),
     subdirs |-> <<[metadata |-> None, files |-> <<JsonFile(<<blob>>)>>]>>]

TheBlob == raw.subdirs[1].files[1].blobs[1]

BlobInit ==
    /\ disk = EmptyTree.disk
    /\ plots = EmptyTree.plots
    /\ dirs = EmptyTree.dirs
    /\ hist = History(EmptyTree, None, EmptyFn, {}, None)
    /\ raw \in {BlobTree(blob) : blob \in BlobInputs}
    /\ collection = << >>
    /\ most_recent_ymm_init = None
    /\ all_ymms_init = {}
    /\ pc = "construct"
    /\ run = 1
    /\ walk = << >>
    /\ fidx = 0
    /\ rf = RollupMonthly(JanStart, "air")
    /\ calls = 0
    /\ cli = None
    /\ cfg = None
    /\ last = Call("new", << >>, FALSE, FALSE)

\* Observations.transform1(blob); last.args holds the record before and after
Transform1 ==
    /\ pc = "construct"
    /\ last.op = "new"
    /\ last' = Call("transform1", <<TheBlob, transform1(TheBlob)>>, FALSE, FALSE)
    /\ UNCHANGED <<disk, plots, dirs, raw, collection, most_recent_ymm_init,
                   all_ymms_init, pc, run, walk, fidx, hist, fileVars, cli, cfg>>

\* Observations.get_fallback_time(blob); last.args holds the record and the
\* time returned
GetFallbackTime ==
    /\ pc = "construct"
    /\ last.op = "new"
    /\ \E r \in {get_fallback_time(TheBlob)} :
           last' = Call("get_fallback_time", <<TheBlob, r.fb>>, FALSE, r.raised)
    /\ UNCHANGED <<disk, plots, dirs, raw, collection, most_recent_ymm_init,
                   all_ymms_init, pc, run, walk, fidx, hist, fileVars, cli, cfg>>

BlobNext == Transform1 \/ GetFallbackTime \/ Construct

SpecBlob == BlobInit /\ [][BlobNext]_vars

(***************************************************************************)
(* SpecFault: do_rollup under a file system whose writes may fail, over    *)
(* raw trees of well-formed endpoints of the one measurement "air".        *)
(***************************************************************************)
FaultEndpoints ==
    {[metadata |-> Some(DocA), files |-> <<JsonFile(<<DataBlob(Datapoint(t, W0, "ev1"))>>)>>] :
        t \in {J0, F0}}

FaultTrees ==
    {[metadata |-> Some(RootDoc), subdirs |-> sd] :
        sd \in UNION {[1..n -> FaultEndpoints] : n \in 0..MaxObs}}

FaultInit ==
    /\ \E t \in {EmptyTree, JanTree} :
          /\ disk = t.disk
          /\ plots = t.plots
          /\ dirs = t.dirs
          /\ hist = History(t, None, EmptyFn, {}, None)
    /\ raw \in FaultTrees
    /\ collection = << >>
    /\ most_recent_ymm_init = None
    /\ all_ymms_init = {}
    /\ pc = "construct"
    /\ run = 1
    /\ walk = << >>
    /\ fidx = 0
    /\ rf = RollupMonthly(JanStart, "air")
    /\ calls = 0
    /\ cli = None
    /\ cfg = None
    /\ last = Call("new", << >>, FALSE, FALSE)

\* Whether flush of the object reaches the writes of rewrite
Rewrites(self) == self._changed /\ self._content # None

\* RollupMonthlyCollection.flush, one item of the dict, with the outcome the
\* file system gives to the writes of its rewrite
FlushOneIO ==
    /\ pc = "flush"
    /\ fidx <= Len(collection)
    /\ \E io \in IF Rewrites(collection[fidx].val) THEN IOOutcomes ELSE {"ok"} :
       \E r \in {flush_io(collection[fidx].val, tree, io)} :
           /\ disk' = r.fs.disk
           /\ plots' = r.fs.plots
           /\ dirs' = r.fs.dirs
           /\ pc' = IF r.raised THEN "raised" ELSE "flush"
           /\ last' = Call("flush", <<fidx, io>>, FALSE, r.raised)
    /\ fidx' = fidx + 1
    /\ UNCHANGED <<raw, collection, most_recent_ymm_init, all_ymms_init, run, walk,
                   hist, fileVars, cli, cfg>>

FaultNext == Construct \/ SaveQuick \/ Exhausted \/ FlushOneIO \/ Return \/ Again

SpecFault == FaultInit /\ [][FaultNext]_vars

(***************************************************************************)
(* SpecResolve: LocalArgumentParser._resolve, applied to the parsed        *)
(* arguments a, the environment and the config file.  A location of a is   *)
(* None or a string; the config file is None when it cannot be opened,     *)
(* else its section header ("none" when it has no header line) and its     *)
(* options.                                                                *)
(***************************************************************************)
Locations == {"raw_location", "rollup_location"}

\* os.path.expanduser on the paths of the model
expanduser(path) ==
    CASE path = "~/cli" -> "/home/user/cli"
      [] path = "~/env" -> "/home/user/env"
      [] path = "~/conf" -> "/home/user/conf"
      [] OTHER -> path

\* the namespaces argparse gives: each flag absent (default None) or given
Namespaces == [Locations -> {None, Some("~/cli")}]

\* os.environ: each variable unset or set
Environs ==
    UNION {[keys -> {"~/env"}] : keys \in SUBSET Locations}

ConfigFiles ==
    {None} \cup
    {Some([header |-> h, options |-> o]) :
        h \in {"none", "global", "other"},
        o \in UNION {[keys -> {"~/conf"}] : keys \in SUBSET Locations}}

\* bool(config_string): the text of the file is not empty
HasText(file) == file.header # "none" \/ DOMAIN file.options # {}

\* c.read_string: the sections of the file; a file without a section
\* header raises MissingSectionHeaderError and is read again with
\* "[global]\n" in front
read_string(file) ==
    IF file.header = "other"
    THEN [other |-> file.options]
    ELSE [global |-> file.options]

\* os.path.expanduser(os.environ.get(key, c['global'].get(key, None))): the
\* arguments are evaluated first, so c['global'] raises KeyError when the
\* file has no such section, and expanduser(None) raises TypeError.  The
\* result is the value and the exception raised (None when none is).
resolve_location(environ, c, key) ==
    IF "global" \notin DOMAIN c
    THEN [value |-> None, raised |-> Some("KeyError")]
    ELSE LET conf == IF key \in DOMAIN c.global THEN Some(c.global[key]) ELSE None
             found == IF key \in DOMAIN environ THEN Some(environ[key]) ELSE conf
         IN  IF found = None
             THEN [value |-> None, raised |-> Some("TypeError")]
             ELSE [value |-> Some(expanduser(found[1])), raised |-> None]

\* LocalArgumentParser._resolve.  The result is the namespace and the
\* exception raised (None when none is).
resolve(a, environ, config) ==
    IF config = None \/ ~HasText(config[1])
    THEN [a |-> a, raised |-> None]
    ELSE LET c == read_string(config[1])
             raw_r == resolve_location(environ, c, "raw_location")
             a1 == IF a["raw_location"] = None
                   THEN [a EXCEPT !["raw_location"] = raw_r.value]
                   ELSE a
             rollup_r == resolve_location(environ, c, "rollup_location")
         IN  IF a["raw_location"] = None /\ raw_r.raised # None
             THEN [a |-> a, raised |-> raw_r.raised]
             ELSE IF a["rollup_location"] = None
                  THEN IF rollup_r.raised # None
                       THEN [a |-> a1, raised |-> rollup_r.raised]
                       ELSE [a |-> [a1 EXCEPT !["rollup_location"] = rollup_r.value],
                             raised |-> None]
                  ELSE [a |-> a1, raised |-> None]

ResolveInit ==
    /\ disk = EmptyTree.disk
    /\ plots = EmptyTree.plots
    /\ dirs = EmptyTree.dirs
    /\ hist = History(EmptyTree, None, EmptyFn, {}, None)
    /\ rf = RollupMonthly(JanStart, "air")
    /\ calls = 0
    /\ EngineIdle
    /\ cli \in {Some([a |-> a, environ |-> e, config |-> c]) :
                    a \in Namespaces, e \in Environs, c \in ConfigFiles}
    /\ cfg = None
    /\ last = Call("new", << >>, FALSE, FALSE)

\* self._resolve(a): a is changed in place; last.args holds the namespace
\* as it was given and the exception raised
Resolve ==
    /\ last.op = "new"
    /\ \E r \in {resolve(cli[1].a, cli[1].environ, cli[1].config)} :
           /\ cli' = Some([cli[1] EXCEPT !.a = r.a])
           /\ last' = Call("_resolve", <<cli[1].a, r.raised>>, FALSE, r.raised # None)
    /\ UNCHANGED <<disk, plots, dirs, hist, engineVars, fileVars, cfg>>

SpecResolve == ResolveInit /\ [][Resolve]_vars

(***************************************************************************)
(* SpecSeries: one RollupMonthly object, the January partition of "air",   *)
(* given up to MaxAddRows rows whose timestamps, all of January, are three *)
(* different instants.                                                     *)
(***************************************************************************)
SeriesTimes == {J0p, J0, J1}

\* rf.add_row(t, "ev1", v, m)
SeriesAddRow ==
    /\ calls < MaxAddRows
    /\ ~last.raised
    /\ \E t \in SeriesTimes, m \in Snapshots :
          \E r \in {add_row(rf, tree, t, "ev1", DP0, m)} :
              /\ rf' = r.obj
              /\ last' = Call("add_row", <<t, "ev1", DP0, m>>, HasKey(rf, <<t, "ev1">>), r.raised)
              /\ hist' = [hist EXCEPT !.added = Earliest(@, m, Instant(t)),
                                      !.times = @ \cup {datetime_isoformat(t)}]
    /\ calls' = calls + 1
    /\ UNCHANGED <<disk, plots, dirs, engineVars, cli, cfg>>

SpecSeries == FileInit /\ [][SeriesAddRow]_vars

(***************************************************************************)
(* SpecDecode: the walk over one datapoint, for every sensor key and       *)
(* payload: a key the thermal decoder knows, a key of a family with no     *)
(* handler and a key no decoder matches; payloads with and without the     *)
(* driver's reading, and a text that is no w1_slave content.               *)
(***************************************************************************)
SensorKeys == {SensorKey, Type10Key, OtherKey}

Payloads ==
    {[crc_ok |-> c, temp |-> t] : c \in {"YES", "NO"}, t \in {None} \cup {Some(x) : x \in Temps}}
        \cup {Garbage}

DecodeInit ==
    /\ disk = EmptyTree.disk
    /\ plots = EmptyTree.plots
    /\ dirs = EmptyTree.dirs
    /\ hist = History(EmptyTree, None, EmptyFn, {}, None)
    /\ raw \in {BlobTree(DataBlob([Datapoint(t, w, "ev1") EXCEPT !.key = k])) :
                    t \in {J0, J1, F0}, w \in Payloads, k \in SensorKeys}
    /\ collection = << >>
    /\ most_recent_ymm_init = None
    /\ all_ymms_init = {}
    /\ pc = "construct"
    /\ run = 1
    /\ walk = << >>
    /\ fidx = 0
    /\ rf = RollupMonthly(JanStart, "air")
    /\ calls = 0
    /\ cli = None
    /\ cfg = None
    /\ last = Call("new", << >>, FALSE, FALSE)

SpecDecode == DecodeInit /\ [][Construct]_vars

(***************************************************************************)
(* SpecConfig: Config.config of the device agent (src/w1datalogger).  A    *)
(* path is [abs, parts]: whether it starts at the root, and its            *)
(* components; cfg holds the Config object (config_filename, _config),     *)
(* the paths open() finds a JSON file at, the number of open() calls so    *)
(* far modulo 2, and whether the property has returned.                    *)
(***************************************************************************)
FsPath(abs, parts) == [abs |-> abs, parts |-> parts]

\* len() of a component
NameLen(name) == IF name = "datalogger.json" THEN 15 ELSE 1

RECURSIVE PartsLen(_)
PartsLen(parts) ==
    IF parts = << >> THEN 0
    ELSE NameLen(Head(parts)) + (IF Len(parts) > 1 THEN 1 ELSE 0) + PartsLen(Tail(parts))

\* len(self.config_filename)
PathLen(path) == (IF path.abs THEN 1 ELSE 0) + PartsLen(path.parts)

\* os.path.split(path)[0]: "/" and "" are their own heads
split_head(path) ==
    IF path.parts = << >> THEN path
    ELSE FsPath(path.abs, SubSeq(path.parts, 1, Len(path.parts) - 1))

\* os.path.split(path)[1]
split_tail(path) == IF path.parts = << >> THEN "" ELSE path.parts[Len(path.parts)]

\* os.path.join(head, tail), for a tail that is one component
join(head, tail) == FsPath(head.abs, Append(head.parts, tail))

\* the starting paths: a file name under up to MaxDepth directories
ConfigPaths ==
    {FsPath(abs, Append(d, name)) :
        abs \in BOOLEAN,
        d \in UNION {[1..n -> {"a", "b"}] : n \in 0..MaxDepth},
        name \in {"datalogger.json", "x"}}

\* the file of the name in the directory k levels above the one of the path
Ancestor(path, k) ==
    FsPath(path.abs, Append(SubSeq(path.parts, 1, Len(path.parts) - 1 - k),
                            path.parts[Len(path.parts)]))

ConfigInit ==
    /\ disk = EmptyTree.disk
    /\ plots = EmptyTree.plots
    /\ dirs = EmptyTree.dirs
    /\ hist = History(EmptyTree, None, EmptyFn, {}, None)
    /\ rf = RollupMonthly(JanStart, "air")
    /\ calls = 0
    /\ cli = None
    /\ EngineIdle
    /\ \E path \in ConfigPaths :
       \E files \in {{}} \cup {{Ancestor(path, k)} : k \in 0..(Len(path.parts) - 1)} :
           cfg = Some([config_filename |-> path, _config |-> None,
                       files |-> files, opens |-> 0, returned |-> FALSE])
    /\ last = Call("new", << >>, FALSE, FALSE)

\* Config.config, one evaluation of the while condition and the loop body
\* that follows it: the property returns when the name is one character
\* or less, or when the file opens; on IOError the name becomes
\* join(split(split(name)[0])[0], split(name)[1]) and the loop goes on
ConfigLookup ==
    /\ cfg # None
    /\ ~cfg[1].returned
    /\ \E self \in {cfg[1]} :
           cfg' = Some(
               IF PathLen(self.config_filename) <= 1
               THEN [self EXCEPT !.returned = TRUE]
               ELSE IF self.config_filename \in self.files
                    THEN [self EXCEPT !._config = Some([Post |-> "https://endpoint"]),
                                      !.opens = (@ + 1) % 2,
                                      !.returned = TRUE]
                    ELSE [self EXCEPT !.config_filename =
                              join(split_head(split_head(self.config_filename)),
                                   split_tail(self.config_filename)),
                                      !.opens = (@ + 1) % 2])
    /\ last' = Call("config", <<cfg[1].config_filename>>, FALSE, FALSE)
    /\ UNCHANGED <<disk, plots, dirs, hist, engineVars, fileVars, cli>>

\* the interpreter goes on running the loop
SpecConfig == ConfigInit /\ [][ConfigLookup]_vars /\ WF_vars(ConfigLookup)

(***************************************************************************)
(* Properties.                                                             *)
(***************************************************************************)
\* The partition (year, month, measurement) that a key made by the
\* constructor, (utctimetuple, measurement), stands for
PartitionOf(k) == <<k[1][1], k[1][2], k[2]>>

\* The partitions on disk at construction, and the greatest of them
KnownAtInit == {PartitionOf(k) : k \in all_ymms_init}
MostRecentAtInit ==
    IF most_recent_ymm_init = None THEN None
    ELSE Some(PartitionOf(most_recent_ymm_init[1]))

\* The RollupMonthly objects the store holds for a partition
FilesFor(coll, ymm) ==
    {coll[i].val : i \in {j \in 1..Len(coll) :
                            coll[j].val.filename = filename_format(ymm[1], ymm[2], ymm[3])}}

\* C1: after save_quick of an observation whose partition P was on disk at
\* construction together with a greater partition, no RollupMonthly object
\* for P holds a row or is dirty.  The code does not keep this: the keys of
\* the constructor never equal a (year, month, measurement) key, so the
\* observation is merged into a new object for P.
C1_OlderPartitionSkipped ==
    (/\ last.op = "save_quick"
     /\ year_month_measurement(last.args[1]) \in KnownAtInit
     /\ Some(year_month_measurement(last.args[1])) # MostRecentAtInit)
    => \A f \in FilesFor(collection, year_month_measurement(last.args[1])) :
           ~f._changed /\ f._content = None

\* C2: when the partition's document was on disk with rows R when the object
\* was constructed, a flush that follows add_row leaves on disk every row of
\* R whose timestamp add_row was not given.  The code does not keep this:
\* read_lazy opens a path without the measurement directory, finds no file
\* and starts from an empty dict.
C2_ExistingRowsKept ==
    (/\ last.op = "flush"
     /\ ~last.raised
     /\ hist.times # {}
     /\ hist.at_new # None)
    => /\ WritePath(rf) \in DOMAIN disk
       /\ \A i \in 1..Len(hist.at_new[1].rows) :
              hist.at_new[1].rows[i][1] \notin hist.times
              => \E j \in 1..Len(disk[WritePath(rf)].rows) :
                     disk[WritePath(rf)].rows[j] = hist.at_new[1].rows[i]

\* C3: after save_quick of an observation whose partition is the greatest
\* one on disk at construction, or was not on disk at construction, the row
\* is held by a RollupMonthly object of that partition.  The code does not
\* keep this when add_row raises in save_metadata's sort.
C3_AlwaysMerges ==
    (/\ last.op = "save_quick"
     /\ \/ Some(year_month_measurement(last.args[1])) = MostRecentAtInit
        \/ year_month_measurement(last.args[1]) \notin KnownAtInit)
    => HasRow(collection, last.args[1])

\* C4: the row dict holds at most one item per (timestamp, event id) key,
\* and after add_row with a key the dict already held, the value stored
\* under that key is the value of this call.  The code does not keep the
\* second part when add_row raises in save_metadata's sort.
C4_LastWriteWins ==
    /\ rf._content # None
       => \A a, b \in rf._content[1] : KeyEq(a.key, b.key) => a = b
    /\ (last.op = "add_row" /\ last.had)
       => \E it \in rf._content[1] :
              /\ KeyEq(it.key, <<last.args[1], last.args[2]>>)
              /\ it.val = last.args[3]

\* C5: after any sequence of add_row calls, metadata_series holds no two
\* entries with equal snapshots, holds an entry for every snapshot add_row
\* was given, and the onset of each entry is the least of the timestamps its
\* snapshot was given with, whatever the order of the calls.
C5_MetadataOnsets ==
    /\ \A i, j \in 1..Len(rf.metadata_series) :
           i # j => rf.metadata_series[i][2] # rf.metadata_series[j][2]
    /\ \A i \in 1..Len(rf.metadata_series) :
           /\ rf.metadata_series[i][2] \in DOMAIN hist.added
           /\ Instant(rf.metadata_series[i][1]) = hist.added[rf.metadata_series[i][2]]
    /\ \A m \in DOMAIN hist.added :
           \E i \in 1..Len(rf.metadata_series) : rf.metadata_series[i][2] = m

\* The same snapshot was given twice, the second time with a later
\* timestamp, and the series holds its one entry
C5_Witness ==
    /\ last.op = "add_row"
    /\ calls = 2
    /\ Len(rf.metadata_series) = 1
    /\ Instant(last.args[1]) > hist.added[last.args[4]]

\* C6: a flush of an object that is not dirty changes nothing in the rollup
\* tree: no document, no companion file, no directory.
C6_CleanFlushNoop ==
    [][(FileFlush /\ ~rf._changed) => (disk' = disk /\ plots' = plots /\ dirs' = dirs)]_vars

\* An object that has loaded its content and was given no row has been
\* flushed, with the partition's document on disk
C6_Witness ==
    /\ last.op = "flush"
    /\ ~rf._changed
    /\ rf._content # None
    /\ WritePath(rf) \in DOMAIN disk

C8_Idempotent ==
    (run >= 2 /\ pc \in {"done", "raised"}) => Some(tree) = hist.end1

\* The second run has returned; the runs have changed the tree and a
\* document holds two rows
C8_Witness ==
    /\ run = 2
    /\ pc = "done"
    /\ tree # hist.tree0
    /\ \E p \in DOMAIN disk : Len(disk[p].rows) = 2

\* C9: when the raw tree yields no observation (no subdirectory with a data
\* file, with or without a METADATA.json at its root), do_rollup does not
\* raise and the rollup tree stays as it was before the run.
C9_NoObservationsNoOutput ==
    generate_all(raw) = << >> => (pc # "raised" /\ tree = hist.tree0)

\* do_rollup has returned over a raw tree that holds a METADATA.json only,
\* and over an empty rollup root
C9_Witness ==
    /\ pc = "done"
    /\ run = 1
    /\ raw.metadata # None
    /\ raw.subdirs = << >>
    /\ hist.tree0 = EmptyTree

\* C10: over an empty rollup root and a raw tree of one subdirectory with
\* one datapoint, do_rollup does not raise, and when it has returned the
\* rollup tree holds one document and one companion file, each of one row.
C10_SingleObservation ==
    (hist.tree0 = EmptyTree /\ Len(raw.subdirs) = 1 /\ run = 1)
    => /\ pc # "raised"
       /\ pc = "done"
          => /\ Cardinality(DOMAIN disk) = 1
             /\ Cardinality(DOMAIN plots) = 1
             /\ \A p \in DOMAIN disk : Len(disk[p].rows) = 1
             /\ \A p \in DOMAIN plots : Len(plots[p].lines) = 1

\* The run over one datapoint has returned and its document is on disk
C10_Witness ==
    /\ hist.tree0 = EmptyTree
    /\ Len(raw.subdirs) = 1
    /\ run = 1
    /\ pc = "done"
    /\ Path("air", filename_format(2020, 1, "air")) \in DOMAIN disk

\* The data files of a subdirectory that json.load reads
RECURSIVE ReadableFiles(_)
ReadableFiles(files) ==
    IF files = << >> THEN << >>
    ELSE (IF Head(files).kind = "json" THEN <<Head(files)>> ELSE << >>)
         \o ReadableFiles(Tail(files))

\* The raw tree without the data files that cannot be read or parsed
RECURSIVE ReadableDirs(_)
ReadableDirs(subdirs) ==
    IF subdirs = << >> THEN << >>
    ELSE <<[Head(subdirs) EXCEPT !.files = ReadableFiles(@)]>> \o ReadableDirs(Tail(subdirs))

\* C11: the walk over a raw tree is the walk over the same tree without its
\* unreadable and malformed data files: such a file is skipped, nothing is
\* raised for it and every observation of the other files is yielded.  The
\* code does not keep this: the handler calls logger.exception() without
\* its msg argument, which raises TypeError and ends the walk.
C11_BadFileSkipped ==
    last.op = "construct"
    => walk = generate_all([raw EXCEPT !.subdirs = ReadableDirs(@)])

\* The rollup tree as it was when the present run of do_rollup began
RunStart == IF run = 1 THEN hist.tree0 ELSE hist.end1[1]

\* Whether the root or a subdirectory holds a METADATA.json that is not JSON
AnyMalformed(rawtree) ==
    \/ rawtree.metadata = Some(BadJson)
    \/ \E i \in 1..Len(rawtree.subdirs) : rawtree.subdirs[i].metadata = Some(BadJson)

\* The subdirectories with an empty document {} in place of each missing
\* METADATA.json
RECURSIVE WithEmptyDocs(_)
WithEmptyDocs(subdirs) ==
    IF subdirs = << >> THEN << >>
    ELSE <<[Head(subdirs) EXCEPT !.metadata = IF @ = None THEN Some(EmptyFn) ELSE @]>>
         \o WithEmptyDocs(Tail(subdirs))

\* C12: a run ends with exit code 65 only over a raw tree with a malformed
\* METADATA.json, and then the rollup tree is as it was when the run began;
\* no run over such a tree reaches the flush or returns; and the walk over a
\* tree with missing METADATA.json files is the walk over the same tree
\* with empty documents in their place.
C12_MalformedMetadataFatal ==
    /\ pc = "exit65" => (AnyMalformed(raw) /\ tree = RunStart)
    /\ pc \in {"flush", "done"} => ~AnyMalformed(raw)
    /\ last.op = "construct"
       => walk = generate_all([metadata |-> IF raw.metadata = None THEN Some(EmptyFn)
                                            ELSE raw.metadata,
                               subdirs |-> WithEmptyDocs(raw.subdirs)])

\* The process has exited with 65 at the METADATA.json of a later
\* subdirectory, after an observation was merged into a partition
C12_Witness ==
    /\ pc = "exit65"
    /\ last.op = "walk"
    /\ \E i \in 1..Len(collection) : collection[i].val._changed
    /\ tree = hist.tree0

\* The timestamp a datapoint is to get: its own isotime, else the first the
\* blob has of scan_end, recording_isotime, scan_start; None when there is
\* none
TimeFor(p, blob) ==
    IF "isotime" \in DOMAIN p THEN Some(p.isotime)
    ELSE IF "scan_end" \in DOMAIN blob THEN Some(blob.scan_end)
    ELSE IF "recording_isotime" \in DOMAIN blob THEN Some(blob.recording_isotime)
    ELSE IF "scan_start" \in DOMAIN blob THEN Some(blob.scan_start)
    ELSE None

\* C13: in the walk over a data blob, every datapoint reached without a
\* raise before it gives an observation with its own isotime if it has one,
\* else with the first the blob has of scan_end, recording_isotime and
\* scan_start; a datapoint with no isotime in a blob with none of the three
\* ends the walk with RuntimeError and gives no observation.
C13_TimestampFallback ==
    (last.op = "construct" /\ "datapoints" \in DOMAIN TheBlob)
    => \A i \in 1..Len(TheBlob.datapoints) :
          (\A j \in 1..(i - 1) : TimeFor(TheBlob.datapoints[j], TheBlob) # None)
          => IF TimeFor(TheBlob.datapoints[i], TheBlob) = None
             THEN Len(walk) = i /\ walk[i] = Stop("RuntimeError")
             ELSE /\ Len(walk) >= i
                  /\ ~IsStop(walk[i])
                  /\ walk[i].uuid = TheBlob.datapoints[i].recording_event
                  /\ walk[i].datetime
                         = isoparse(TimeFor(TheBlob.datapoints[i], TheBlob)[1])

\* The walk gave an observation to a first datapoint with its own isotime and
\* the scan_end time to a second one without, in a blob with all three fields
C13_Witness ==
    /\ last.op = "construct"
    /\ "datapoints" \in DOMAIN TheBlob
    /\ {"scan_end", "recording_isotime", "scan_start"} \subseteq DOMAIN TheBlob
    /\ Len(walk) = 2
    /\ walk[1].datetime = J1p
    /\ "isotime" \notin DOMAIN TheBlob.datapoints[2]
    /\ walk[2].datetime = F0

\* C14: transform1 of a legacy record gives a record whose "datapoints" is
\* the one-element list of the isotime, key and value of the sensor entry,
\* without the sensor key at the top level, and with every other top-level
\* field as it was.
C14_Transform1 ==
    (last.op = "transform1" /\ SensorKey \in DOMAIN last.args[1])
    => LET obj == last.args[1]
           out == last.args[2]
       IN  /\ DOMAIN out = ((DOMAIN obj) \ {SensorKey}) \cup {"datapoints"}
           /\ out.datapoints = <<[isotime |-> obj[SensorKey].isotime,
                                  key |-> SensorKey,
                                  value |-> obj[SensorKey].value]>>
           /\ \A k \in (DOMAIN obj) \ {SensorKey} : out[k] = obj[k]

\* transform1 has rewritten a legacy record that has other top-level fields
C14_Witness ==
    /\ last.op = "transform1"
    /\ SensorKey \in DOMAIN last.args[1]
    /\ {"recording_observer", "scan_end"} \subseteq DOMAIN last.args[1]
    /\ "crc" \in DOMAIN last.args[1][SensorKey]
    /\ "datapoints" \in DOMAIN last.args[2]

\* The rollup document rewrite writes for an object
DocumentOf(self) ==
    [metadata |-> Sorted(MetaOf(self.metadata_series)),
     rows |-> SortedRows(self._content[1])]

\* C15: no rollup file on disk is ever a partial document, and after a
\* flush whose rollup document could not be written the error has left
\* flush (the run is over) and the file of the partition is absent.
C15_FailedWriteRemoved ==
    /\ \A p \in DOMAIN disk : disk[p] # Partial
    /\ (last.op = "flush" /\ last.args[2] = "json_fails")
       => /\ last.raised
          /\ pc = "raised"
          /\ WritePath(collection[last.args[1]].val) \notin DOMAIN disk

\* The write of a partition that had a document on disk has failed, and the
\* document is gone
C15_Witness ==
    /\ last.op = "flush"
    /\ last.args[2] = "json_fails"
    /\ WritePath(collection[last.args[1]].val) \in DOMAIN hist.tree0.disk
    /\ WritePath(collection[last.args[1]].val) \notin DOMAIN disk

\* C16: a flush whose .data file could not be written does not raise, has
\* the rollup document of its partition on disk, and leaves the store in
\* its flush; and a run that returned has written the rollup document of
\* every partition that took a row.
C16_PlotFailureSwallowed ==
    /\ (last.op = "flush" /\ last.args[2] \in {"plot_open_fails", "plot_write_fails"})
       => /\ ~last.raised
          /\ pc = "flush"
          /\ FileAt(tree, WritePath(collection[last.args[1]].val))
                 = Some(DocumentOf(collection[last.args[1]].val))
    /\ pc = "done"
       => \A i \in 1..Len(collection) :
              Rewrites(collection[i].val)
              => FileAt(tree, WritePath(collection[i].val))
                     = Some(DocumentOf(collection[i].val))

\* The run has returned after the .data file of its first partition failed
\* and its second partition was written in full
C16_Witness ==
    /\ pc = "done"
    /\ Len(collection) = 2
    /\ Rewrites(collection[1].val) /\ Rewrites(collection[2].val)
    /\ plotfilename(WritePath(collection[1].val)) \in DOMAIN plots
    /\ plots[plotfilename(WritePath(collection[1].val))] = Partial
    /\ plotfilename(WritePath(collection[2].val)) \in DOMAIN plots
    /\ plots[plotfilename(WritePath(collection[2].val))] # Partial

\* The walks of the subdirectories, each begun on its own with the root
\* metadata, one after the other up to the first that raises
RECURSIVE DirWalks(_, _)
DirWalks(subdirs, metadata_base) ==
    IF subdirs = << >> THEN << >>
    ELSE LET w == generate_dir(Head(subdirs), metadata_base, << >>)
         IN  IF Stopped(w) THEN w ELSE w \o DirWalks(Tail(subdirs), metadata_base)

\* The metadata snapshots of the observations of a walk, in order
RECURSIVE Snapshots_of(_)
Snapshots_of(events) ==
    IF events = << >> \/ IsStop(Head(events)) THEN << >>
    ELSE <<Head(events).metadata>> \o Snapshots_of(Tail(events))

\* C17: every observation of a subdirectory carries a snapshot whose keys
\* are those of the root document and of the subdirectory's document, with
\* the subdirectory's value for each key the subdirectory has and the
\* root's value for every other; and the snapshots of a whole walk are those
\* the subdirectories give when each is walked on its own with the root
\* metadata.
C17_ShallowOverlay ==
    (last.op = "construct" /\ ~MetadataExits(raw))
    => /\ \A i \in 1..Len(raw.subdirs) :
             LET sub == metadata_of(raw.subdirs[i])
                 root == metadata_of(raw)
                 w == generate_dir(raw.subdirs[i], root, << >>)
             IN  \A n \in 1..Len(w) :
                     ~IsStop(w[n])
                     => /\ DOMAIN w[n].metadata = (DOMAIN root) \cup (DOMAIN sub)
                        /\ \A k \in DOMAIN sub : w[n].metadata[k] = sub[k]
                        /\ \A k \in (DOMAIN root) \ (DOMAIN sub) : w[n].metadata[k] = root[k]
       /\ Snapshots_of(walk) = Snapshots_of(DirWalks(raw.subdirs, metadata_of(raw)))

\* Under a root document with site and collector, a first subdirectory that
\* replaces both and a second one without METADATA.json: the collector of
\* the first snapshot has lost the root's owner, and the second snapshot is
\* the root document
C17_Witness ==
    /\ last.op = "construct"
    /\ raw.metadata = Some(RootDocC)
    /\ Len(raw.subdirs) = 2
    /\ raw.subdirs[1].metadata = Some(DocB)
    /\ raw.subdirs[2].metadata = None
    /\ Len(walk) = 2
    /\ walk[1].metadata.site = "lab"
    /\ "owner" \notin DOMAIN walk[1].metadata.collector
    /\ walk[2].metadata = RootDocC

\* The value the precedence rule gives to a location: the command-line
\* value, else the environment's, else the config file's, else the default
\* None
Precedence(a, environ, config, key) ==
    IF a[key] # None THEN a[key]
    ELSE IF key \in DOMAIN environ THEN Some(environ[key])
    ELSE IF /\ config # None
            /\ config[1].header # "other"
            /\ key \in DOMAIN config[1].options
         THEN Some(config[1].options[key])
    ELSE None

\* The path rollup_command hands on for a resolved location
Expanded(v) == IF v = None THEN None ELSE Some(expanduser(v[1]))

\* C18: _resolve does not raise, and it leaves in each of raw_location and
\* rollup_location the command-line value if given, else the environment
\* value if set, else the config-file value if present, else the default.
\* It does not hold: with no readable config file the environment is not
\* looked at, and with a config file that lacks the entry or the section
\* the lookup raises.
C18_Precedence ==
    last.op = "_resolve"
    => /\ ~last.raised
       /\ \A key \in Locations :
              Expanded(cli[1].a[key])
                  = Expanded(Precedence(last.args[1], cli[1].environ, cli[1].config, key))

\* C19: the rollup tree is as it was when the run began for as long as
\* do_rollup is constructing or in its loop, and after a run that the walk
\* or save_quick ended with an exception or an exit; and the flush begins
\* only when the walk has nothing left to yield.
C19_FlushAfterWalk ==
    /\ pc \in {"construct", "walk", "exit65"} => tree = RunStart
    /\ (pc = "raised" /\ last.op \in {"walk", "save_quick"}) => tree = RunStart
    /\ pc \in {"flush", "done"} => walk = << >>

\* The walk has raised at a later datapoint (no handler for its sensor key,
\* or no timestamp), after an observation was merged into a partition
C19_Witness ==
    /\ pc = "raised"
    /\ last.op = "walk"
    /\ last.args[1].stop \in {"ItAintMe", "RuntimeError"}
    /\ \E i \in 1..Len(collection) : collection[i].val._changed
    /\ tree = RunStart

\* The rows an object holds
RowsOf(self) == IF self._content = None THEN {} ELSE self._content[1]

\* Whether the wall-clock time of a timestamp lies in [dt_start, dt_end)
InBounds(dt, self) ==
    /\ self.dt_start.year * 12 + self.dt_start.month <= dt.year * 12 + dt.month
    /\ dt.year * 12 + dt.month < self.dt_end.year * 12 + self.dt_end.month

\* Whether a row of the object is the row of the observation, and the
\* object is the RollupMonthly of the observation's partition
StoredFrom(it, self, observation) ==
    /\ KeyEq(it.key, <<observation.datetime, observation.uuid>>)
    /\ it.val = observation.datapoint
    /\ Resolves(observation.sensor_key, observation.metadata)
    /\ self.measurement_name
           = measurement_for_skey(observation.sensor_key, observation.metadata)
    /\ InBounds(observation.datetime, self)
    /\ self.filename = filename_format(self.dt_start.year, self.dt_start.month,
                                       self.measurement_name)

\* C20: every row an object of the store holds is the row of an
\* observation of the walk whose timestamp lies, by its own year and month,
\* in the bounds of the object and whose sensor key resolves in its own
\* snapshot to the measurement of the object; and a save_quick call adds or
\* changes rows only in the object of the partition of its observation.
C20_RowsInPartition ==
    /\ [](\A i \in 1..Len(collection) :
             \A it \in RowsOf(collection[i].val) :
                 \E n \in 1..Len(generate_all(raw)) :
                     /\ ~IsStop(generate_all(raw)[n])
                     /\ StoredFrom(it, collection[i].val, generate_all(raw)[n]))
    /\ [][SaveQuick
          => \A i \in 1..Len(collection') :
                 \A it \in RowsOf(collection'[i].val) :
                     (i > Len(collection) \/ it \notin RowsOf(collection[i].val))
                     => StoredFrom(it, collection'[i].val, Head(walk))]_vars

\* Two partitions hold a row each: February of "air", from a timestamp whose
\* UTC instant is in January, and January of "water"
C20_Witness ==
    /\ last.op = "save_quick"
    /\ ~last.raised
    /\ last.args[1].datetime = F0p
    /\ \E i, j \in 1..Len(collection) :
           /\ collection[i].val.dt_start = FebStart
           /\ collection[i].val.measurement_name = "air"
           /\ HasKey(collection[i].val, <<F0p, "ev2">>)
           /\ collection[j].val.dt_start = JanStart
           /\ collection[j].val.measurement_name = "water"
           /\ RowsOf(collection[j].val) # {}

\* C21: the metadata_series of the object is in ascending order of onset.
\* The code does not keep this: when save_metadata finds the snapshot and
\* takes the earlier onset, it writes the entry in place and does not sort,
\* so the entry can come to stand after one with a later onset.
C21_SeriesSorted ==
    \A i \in 1..(Len(rf.metadata_series) - 1) :
        Instant(rf.metadata_series[i][1]) <= Instant(rf.metadata_series[i + 1][1])

\* Whether the series holds an entry with the snapshot
InSeries(series, metadata) == \E i \in 1..Len(series) : series[i][2] = metadata

\* C22: add_row with a snapshot the series does not hold does not raise,
\* leaves the series one entry longer and in ascending order of onset, with
\* an entry of the snapshot and the onset given, and stores the row.  The
\* code does not keep this: when the onset equals that of an entry with
\* another snapshot, metadata_series.sort() compares the two dicts and
\* raises TypeError before the row is stored.
C22_NewSnapshotSucceeds ==
    [][(FileAddRow /\ ~InSeries(rf.metadata_series, last'.args[4]))
       => /\ ~last'.raised
          /\ Len(rf'.metadata_series) = Len(rf.metadata_series) + 1
          /\ \E i \in 1..Len(rf'.metadata_series) :
                 rf'.metadata_series[i] = <<last'.args[1], last'.args[4]>>
          /\ \A i \in 1..(Len(rf'.metadata_series) - 1) :
                 Instant(rf'.metadata_series[i][1]) <= Instant(rf'.metadata_series[i + 1][1])
          /\ HasKey(rf', <<last'.args[1], last'.args[2]>>)]_vars

\* The order of two items by the timestamp written for the key, then by
\* the event id of the key; items that agree on both are taken by value
RowKeyLeq(x, y) ==
    LET tx == SortKey(datetime_isoformat(x.key[1]))
        ty == SortKey(datetime_isoformat(y.key[1]))
    IN  \/ tx < ty
        \/ tx = ty /\ <<x.key[2], y.key[2]>> = <<"ev1", "ev2">>
        \/ tx = ty /\ x.key[2] = y.key[2] /\ value(x.val) <= value(y.val)

\* The rows of the items in ascending order of their keys
RECURSIVE RowsByKey(_)
RowsByKey(items) ==
    IF items = {} THEN << >>
    ELSE LET m == CHOOSE x \in items : \A y \in items : RowKeyLeq(x, y)
         IN  <<RowOf(m)>> \o RowsByKey(items \ {m})

\* C23: after a flush that wrote the files, the rows of the document are
\* the rows of the object in ascending order of their (timestamp, event id)
\* keys, and the lines of the .data file follow the same order.  The code
\* does not keep this: it sorts the [timestamp text, value] pairs, so rows
\* of one timestamp come in the order of their values.
C23_RowsInKeyOrder ==
    (last.op = "flush" /\ ~last.raised /\ Writes(rf))
    => /\ disk[WritePath(rf)].rows = RowsByKey(rf._content[1])
       /\ plots[plotfilename(WritePath(rf))].lines = PlotLines(RowsByKey(rf._content[1]))

\* Whether the first record of the subdirectory is a datapoint with a
\* timestamp and a sensor key no handler knows
UnknownFirst(dir) ==
    /\ dir.metadata # Some(BadJson)
    /\ dir.files # << >>
    /\ dir.files[1].kind = "json"
    /\ dir.files[1].blobs # << >>
    /\ "datapoints" \in DOMAIN dir.files[1].blobs[1]
    /\ "isotime" \in DOMAIN dir.files[1].blobs[1].datapoints[1]
    /\ dir.files[1].blobs[1].datapoints[1].key = OtherKey

\* C24: when the walk comes, with no raise before it, to a subdirectory
\* whose first record has a sensor key no handler knows, it yields what the
\* subdirectories before gave and ends there with ItAintMe: nothing of the
\* rest of the file, of later files or of later subdirectories is yielded.
\* From there do_rollup can only raise, and it leaves the rollup tree as it
\* was when the run began.
C24_UnknownSensorAborts ==
    /\ []((last.op = "construct" /\ ~MetadataExits(raw))
          => \A i \in 1..Len(raw.subdirs) :
                 (/\ UnknownFirst(raw.subdirs[i])
                  /\ \A j \in 1..(i - 1) :
                         ~Stopped(generate_dir(raw.subdirs[j], metadata_of(raw), << >>)))
                 => /\ Len(walk) = 1 + Len(DirWalks(SubSeq(raw.subdirs, 1, i - 1),
                                                    metadata_of(raw)))
                    /\ walk[Len(walk)] = Stop("ItAintMe"))
    /\ []((pc = "raised" /\ last.op = "walk" /\ last.args[1] = Stop("ItAintMe"))
          => (tree = RunStart /\ walk = << >>))
    /\ [][(pc = "walk" /\ walk # << >> /\ Head(walk) = Stop("ItAintMe"))
          => pc' = "raised"]_vars

\* do_rollup has raised ItAintMe at the first record of the first
\* subdirectory, whose file and the subdirectory after it hold datapoints
\* that are in order; no observation reached the store
C24_Witness ==
    /\ pc = "raised"
    /\ last.op = "walk"
    /\ last.args[1] = Stop("ItAintMe")
    /\ Len(raw.subdirs) = 2
    /\ raw.subdirs[1].files = <<UnknownKeyFile, LaterFile>>
    /\ raw.subdirs[2].files = <<GoodFile>>
    /\ raw.subdirs[2].metadata = Some(DocA)
    /\ collection = << >>

\* C25: the walk over a datapoint whose sensor key the decoder knows and
\* whose payload is no w1_slave content ends with an exception of another
\* kind than the walk over the same datapoint under a sensor key that no
\* decoder matches.  The code does not keep this: the decoder raises
\* W1Datapoint.ItAintMe on a payload its pattern does not match, the class
\* Observation.__init__ raises for a sensor key without a handler.
C25_DistinctSignals ==
    (/\ last.op = "construct"
     /\ TheBlob.datapoints[1].key = SensorKey
     /\ TheBlob.datapoints[1].value = Garbage)
    => /\ walk # << >>
       /\ IsStop(walk[1])
       /\ walk # generate_all(
                     BlobTree(DataBlob([TheBlob.datapoints[1] EXCEPT !.key = OtherKey])))

\* C26: the store holds at most one RollupMonthly object for a partition
\* file.  The code does not keep this: the constructor registers a file
\* under (dtb.utctimetuple(), measurement) and save_quick looks for
\* (year, month, measurement), which is never found, so add_observation
\* makes a second object for the file.
C26_OneObjectPerPartition ==
    \A i, j \in 1..Len(collection) :
        (/\ collection[i].val.filename = collection[j].val.filename
         /\ collection[i].val.measurement_name = collection[j].val.measurement_name)
        => i = j

\* C27: a flush whose rollup document could not be written leaves on disk
\* the document the partition had before the flush.  The code does not keep
\* this: open(filename, 'w') has emptied the file by the time the write
\* fails, and the handler removes it.
C27_FailedWriteKeepsOld ==
    [][(/\ FlushOneIO
        /\ last'.args[2] = "json_fails"
        /\ WritePath(collection[fidx].val) \in DOMAIN disk)
       => /\ WritePath(collection[fidx].val) \in DOMAIN disk'
          /\ disk'[WritePath(collection[fidx].val)] = disk[WritePath(collection[fidx].val)]]_vars

\* C28: after a flush that did not raise, the object is not dirty: a flush
\* that follows with no add_row in between writes no file.  The code does
\* not keep this: nothing sets _changed back to False, so every later flush
\* writes the files again.
C28_FlushClearsDirty ==
    (last.op = "flush" /\ ~last.raised) => ~Writes(rf)

\* C29: Config.config returns in the end, for every starting path and
\* wherever the config file is or is not.  The code does not keep this:
\* once the name stands in "/" or in "", going up gives the same name
\* again, and the loop opens it forever.
C29_LookupTerminates == <>(cfg[1].returned)

====
